---- MODULE Spec2Model ----
(***************************************************************************)
(* Business-card analyzer backend: the startup reindex (upsert_topics.py), *)
(* the two-collection indexer script (upsert.py), and the /upload request  *)
(* handler with its three agent tools (main.py, info_extract.py).          *)
(*                                                                         *)
(* Texts are sequences of one-character strings.  External collaborators   *)
(* (embedding API, vector store, web search, extraction API, the language  *)
(* model driving the agent) are nondeterministic choices over outcomes.    *)
(***************************************************************************)
EXTENDS Integers, Sequences, FiniteSets, TLC

VARIABLES
    env,        \* value of the EMBEDDING_MODEL environment variable
    dirs,       \* the reference-document directories on disk
    index,      \* the vector collections (external store, survives restarts)
    ix,         \* the indexer run in progress (locals of upsert_topics)
    prev,       \* the last completed indexer run over the present documents
    proc,       \* position of the main.py process
    starts,     \* number of process starts / script runs so far
    edits,      \* number of document edits so far
    req,        \* per request: position and locals of the /upload handler
    loop,       \* the request occupying the event loop (0: none)
    last_tool,  \* the most recent tool invocation and its outcome
    last_query, \* the most recent vector query: query model, record models
    ct,         \* argument and result of a stand-alone chunk_text call
    agent_messages  \* the requests with messages in the agent's conversation

vars == <<env, dirs, index, ix, prev, proc, starts, edits, req, loop,
          last_tool, last_query, ct, agent_messages>>

NoValue == "<none>"

-----------------------------------------------------------------------------
(* Bounds of the model *)

MaxTextLen == 4    \* longest text given to a stand-alone chunk_text call
MaxMaxChars == 3   \* largest max_chars given to a stand-alone chunk_text call
ChunkChars == 2    \* max_chars of process_md (500 in the source), scaled down
MaxStarts == 2     \* process starts / script runs per behaviour
MaxEdits == 1      \* document edits per behaviour
MaxRequests == 2   \* /upload requests per process
MaxRounds == 2     \* tool invocations per agent run
TopK == 1          \* TOP_K (environment, default 3), scaled down

-----------------------------------------------------------------------------
(* Generic helpers *)

Min(a, b) == IF a < b THEN a ELSE b

\* Python's range(start, stop, step) as a sequence
RECURSIVE range(_, _, _)
range(start, stop, step) ==
    IF start >= stop THEN <<>>
    ELSE <<start>> \o range(start + step, stop, step)

\* Python's text[i:j] for 0 <= i <= j (0-based, end exclusive, clipped)
slice(text, i, j) == SubSeq(text, i + 1, Min(j, Len(text)))

RECURSIVE Concat(_)
Concat(seqs) ==
    IF seqs = <<>> THEN <<>> ELSE Head(seqs) \o Concat(Tail(seqs))

\* a sequence of one-character strings as one string
RECURSIVE Str(_)
Str(chars) ==
    IF chars = <<>> THEN "" ELSE Head(chars) \o Str(Tail(chars))

SeqToSet(s) == {s[i] : i \in 1..Len(s)}

Whitespace == {" ", "\n", "\t"}

\* str.strip()
RECURSIVE lstrip(_)
lstrip(s) ==
    IF s # <<>> /\ Head(s) \in Whitespace THEN lstrip(Tail(s)) ELSE s

RECURSIVE rstrip(_)
rstrip(s) ==
    IF s # <<>> /\ s[Len(s)] \in Whitespace
    THEN rstrip(SubSeq(s, 1, Len(s) - 1)) ELSE s

strip(s) == rstrip(lstrip(s))

-----------------------------------------------------------------------------
(* Chunker and plain-text normalisation (upsert.py, upsert_topics.py) *)

\* position of the first ">" at or after position i, 0 when there is none
RECURSIVE find_gt(_, _)
find_gt(s, i) ==
    IF i > Len(s) THEN 0
    ELSE IF s[i] = ">" THEN i ELSE find_gt(s, i + 1)

\* re.sub(r"<[^>]+>", "", s): leftmost non-overlapping matches removed
RECURSIVE strip_tags(_)
strip_tags(s) ==
    IF s = <<>> THEN <<>>
    ELSE IF Head(s) = "<"
         THEN LET j == find_gt(s, 2)
              IN  IF j >= 3 THEN strip_tags(SubSeq(s, j + 1, Len(s)))
                  ELSE <<Head(s)>> \o strip_tags(Tail(s))
         ELSE <<Head(s)>> \o strip_tags(Tail(s))

\* .replace("\n", " ")
replace_newlines(s) == [i \in 1..Len(s) |-> IF s[i] = "\n" THEN " " ELSE s[i]]

markdown_to_plain(md_text) == strip(replace_newlines(strip_tags(md_text)))

\* chunk_text with overlapping windows: a slice one character too long
chunk_text_overlap(text, max_chars) ==
    LET starts_ == range(0, Len(text), max_chars)
    IN  [k \in 1..Len(starts_) |->
            slice(text, starts_[k], starts_[k] + max_chars + 1)]

chunk_text(text, max_chars) ==
    LET starts_ == range(0, Len(text), max_chars)
    IN  [k \in 1..Len(starts_) |->
            slice(text, starts_[k], starts_[k] + max_chars)]

-----------------------------------------------------------------------------
(* Deployment configuration and external stores *)

INGEST_MODEL == "text-embedding-ada-002"
DEFAULT_QUERY_MODEL == "text-embedding-3-small"
EnvChoices == {NoValue, "text-embedding-ada-002", "text-embedding-3-small"}

\* os.getenv("EMBEDDING_MODEL", "text-embedding-3-small")
EMBEDDING_MODEL == IF env = NoValue THEN DEFAULT_QUERY_MODEL ELSE env

MD_DIR == "topics"
BOOTH_DIR == "booth"
TOPICS_DIR == "topics"
DirNames == {BOOTH_DIR, TOPICS_DIR}

BOOTH_INDEX == "booth-chunks"
TOPIC_INDEX == "topic-chunks"
IndexNames == {BOOTH_INDEX, TOPIC_INDEX}

\* file names that occur, with str.lower() and str.endswith(".md") on them
FileNames == {"a.md", "B.MD", "n.txt"}
lower(fname) == CASE fname = "B.MD" -> "b.md" [] OTHER -> fname
endswith_md(fname) == fname \in {"a.md", "b.md"}

\* documents that occur
DocLong == <<"a", " ", "c", "d", "e">>
DocShort == <<"a">>
DocMarkup == <<"<", "b", ">", "a", "\n", "c", "\n">>
DocBlank == <<" ", "\n">>

\* a directory is absent, or holds files, each a name with its content
AbsentDir == [exists |-> FALSE, files |-> {}]
FilesDir(files) == [exists |-> TRUE, files |-> files]
File(name, text) == [name |-> name, text |-> text]
DirThree == FilesDir({File("a.md", DocShort), File("B.MD", DocMarkup),
                      File("n.txt", DocLong)})

TopicDirChoices == {AbsentDir, FilesDir({File("a.md", DocLong)}), DirThree,
                    FilesDir({File("a.md", DocBlank)})}
BoothDirChoices == {AbsentDir, FilesDir({File("a.md", DocShort)})}
DirChoices(d) == IF d = BOOTH_DIR THEN BoothDirChoices ELSE TopicDirChoices

\* os.listdir(directory) and open(path).read()
listdir(directory) == {e.name : e \in dirs[directory].files}
read(directory, f) == (CHOOSE e \in dirs[directory].files : e.name = f).text

\* a collection is the set of its records, at most one per id
EmptyIndex == [n \in IndexNames |-> {}]
CollIds(coll) == {r.id : r \in coll}

\* an upsert that replaces the collection by the batch
upsert_replacing(coll, vectors) == {vectors[i] : i \in 1..Len(vectors)}

\* index.upsert(vectors): insert or overwrite by id, the last record of an id wins
upsert(coll, vectors) ==
    LET ids == {vectors[i].id : i \in 1..Len(vectors)}
        last(id) == CHOOSE i \in 1..Len(vectors) :
                        /\ vectors[i].id = id
                        /\ \A j \in (i + 1)..Len(vectors) : vectors[j].id # id
    IN  {r \in coll : r.id \notin ids} \cup {vectors[last(id)] : id \in ids}

\* client.embeddings.create(model="text-embedding-ada-002", input=[text])
embed_text(text) == [model |-> INGEST_MODEL, input |-> text]

\* openai_client.embeddings.create(model=EMBEDDING_MODEL, input=[text])
embed_query(text) == [model |-> EMBEDDING_MODEL, input |-> text]

-----------------------------------------------------------------------------
(* Vector records *)

\* a record id numbered from 0 instead of 1
vector_id_zero_based(data_type, file_name, idx) ==
    data_type \o "-" \o file_name \o "-chunk" \o ToString(idx)

\* upsert.py: f"{data_type}-{file_name}-chunk{idx+1}"
vector_id(data_type, file_name, idx) ==
    data_type \o "-" \o file_name \o "-chunk" \o ToString(idx + 1)

\* upsert_topics.py: f"{file_name}-chunk{idx+1}"
vector_id_topics(file_name, idx) ==
    file_name \o "-chunk" \o ToString(idx + 1)

\* upsert.py process_md: the record of chunk idx (0-based) of a file
vector_record(data_type, file_name, idx, chunk) ==
    [id |-> vector_id(data_type, file_name, idx),
     values |-> embed_text(chunk),
     metadata |-> [text |-> chunk, source |-> file_name,
                   chunk_index |-> idx + 1, data_type |-> data_type]]

\* upsert_topics.py process_md: the record of chunk idx (0-based) of a file
vector_record_topics(file_name, idx, chunk) ==
    [id |-> vector_id_topics(file_name, idx),
     values |-> embed_text(chunk),
     metadata |-> [text |-> chunk, source |-> file_name,
                   chunk_index |-> idx + 1]]

-----------------------------------------------------------------------------
(* Indexer runs: locals of upsert_topics() in either program *)

IxIdle ==
    [prog |-> NoValue, pc |-> "idle", stage |-> NoValue, error |-> NoValue,
     todo |-> {}, file |-> NoValue, chunks |-> <<>>, vectors |-> <<>>,
     all_vectors |-> <<>>, upserted |-> {},
     failed |-> FALSE, late_calls |-> 0]

\* one more embed or upsert call: counted when an earlier one has failed
Called(x) == [x EXCEPT !.late_calls = @ + (IF x.failed THEN 1 ELSE 0)]

\* the exception of a failed embed or upsert call leaves the run
Raised(x, what) ==
    [Called(x) EXCEPT !.pc = "failed", !.failed = TRUE, !.error = what]

\* the for loop over os.listdir(directory) is entered
ListDir(x, directory) == [x EXCEPT !.pc = "loop", !.todo = listdir(directory)]

\* process_md up to its loop: read, normalise and chunk the file
OpenFile(x, directory, f) ==
    LET chunks == chunk_text(markdown_to_plain(read(directory, f)), ChunkChars)
    IN  IF chunks = <<>>
        THEN [x EXCEPT !.todo = @ \ {f}]
        ELSE [x EXCEPT !.pc = "embed", !.file = f, !.chunks = chunks,
                       !.vectors = <<>>]

\* process_md's loop body done for one chunk; after the last chunk the file's
\* vectors are returned and all_vectors.extend(vectors) runs
Appended(x, rec) ==
    LET vs == Append(x.vectors, rec)
    IN  IF Len(vs) < Len(x.chunks)
        THEN [Called(x) EXCEPT !.vectors = vs]
        ELSE [Called(x) EXCEPT !.pc = "loop", !.todo = @ \ {x.file},
                               !.file = NoValue, !.chunks = <<>>,
                               !.vectors = <<>>,
                               !.all_vectors = @ \o vs]

IdsOf(vectors) == {vectors[i].id : i \in 1..Len(vectors)}

Unchanged_service ==
    UNCHANGED <<env, proc, req, loop, last_tool, last_query, ct, agent_messages>>

(* ---- upsert_topics.py ---- *)

\* upsert_topics() is entered: clients are built and os.listdir(MD_DIR) is
\* evaluated, which raises FileNotFoundError when the directory is absent
upsert_topics_enter ==
    LET x == [IxIdle EXCEPT !.prog = "upsert_topics", !.stage = "topics"]
    IN  IF ~dirs[MD_DIR].exists
        THEN [x EXCEPT !.pc = "failed", !.error = "FileNotFoundError"]
        ELSE ListDir(x, MD_DIR)

UT_NextFile ==
    /\ ix.prog = "upsert_topics" /\ ix.pc = "loop"
    /\ \E f \in ix.todo :
        ix' = IF ~endswith_md(lower(f))
              THEN [ix EXCEPT !.todo = @ \ {f}]
              ELSE OpenFile(ix, MD_DIR, f)
    /\ UNCHANGED <<dirs, index, prev, starts, edits>>
    /\ Unchanged_service

UT_Embed ==
    /\ ix.prog = "upsert_topics" /\ ix.pc = "embed"
    /\ LET idx == Len(ix.vectors)
       IN  ix' = Appended(ix, vector_record_topics(ix.file, idx, ix.chunks[idx + 1]))
    /\ UNCHANGED <<dirs, index, prev, starts, edits>>
    /\ Unchanged_service

\* a failed embedding call whose exception is swallowed: the chunk is skipped
\* and the loop goes on
UT_EmbedRaises_swallowed ==
    /\ ix.prog = "upsert_topics" /\ ix.pc = "embed"
    /\ LET k == Len(ix.vectors) + 1
           rest == SubSeq(ix.chunks, 1, k - 1)
                   \o SubSeq(ix.chunks, k + 1, Len(ix.chunks))
           x == [Called(ix) EXCEPT !.failed = TRUE, !.chunks = rest]
       IN  ix' = IF Len(ix.vectors) < Len(rest)
                 THEN x
                 ELSE [x EXCEPT !.pc = "loop", !.todo = @ \ {ix.file},
                                !.file = NoValue, !.chunks = <<>>,
                                !.vectors = <<>>,
                                !.all_vectors = @ \o ix.vectors]
    /\ UNCHANGED <<dirs, index, prev, starts, edits>>
    /\ Unchanged_service

\* embed_text raises: nothing catches it in process_md or upsert_topics
UT_EmbedRaises ==
    /\ ix.prog = "upsert_topics" /\ ix.pc = "embed"
    /\ ix' = Raised(ix, "EmbeddingServiceError")
    /\ UNCHANGED <<dirs, index, prev, starts, edits>>
    /\ Unchanged_service

\* index.upsert(all_vectors) after the loop, whatever all_vectors holds
UT_Upsert ==
    /\ ix.prog = "upsert_topics" /\ ix.pc = "loop" /\ ix.todo = {}
    /\ index' = [index EXCEPT ![TOPIC_INDEX] = upsert(@, ix.all_vectors)]
    /\ ix' = [Called(ix) EXCEPT !.pc = "done",
                 !.upserted = {<<TOPIC_INDEX, id>> : id \in IdsOf(ix.all_vectors)}]
    /\ UNCHANGED <<dirs, prev, starts, edits>>
    /\ Unchanged_service

UT_UpsertRaises ==
    /\ ix.prog = "upsert_topics" /\ ix.pc = "loop" /\ ix.todo = {}
    /\ ix' = Raised(ix, "IndexUnavailableError")
    /\ UNCHANGED <<dirs, index, prev, starts, edits>>
    /\ Unchanged_service

(* ---- upsert.py ---- *)

StageDir(stage) == IF stage = "booth" THEN BOOTH_DIR ELSE TOPICS_DIR
StageIndex(stage) == IF stage = "booth" THEN BOOTH_INDEX ELSE TOPIC_INDEX
\* the data_type upsert_topics() passes to process_directory for each stage
StageDataType(stage) == IF stage = "booth" THEN "booth" ELSE "tpics"

\* upsert_topics() of upsert.py is entered, booth first
upsert_enter == [IxIdle EXCEPT !.prog = "upsert", !.stage = "booth", !.pc = "dir"]

\* process_directory: an absent directory is skipped with a warning and []
U_ProcessDirectory ==
    /\ ix.prog = "upsert" /\ ix.pc = "dir"
    /\ ix' = IF ~dirs[StageDir(ix.stage)].exists
             THEN [ix EXCEPT !.pc = "loop", !.todo = {}]
             ELSE ListDir(ix, StageDir(ix.stage))
    /\ UNCHANGED <<dirs, index, prev, starts, edits>>
    /\ Unchanged_service

U_NextFile ==
    /\ ix.prog = "upsert" /\ ix.pc = "loop"
    /\ \E f \in ix.todo :
        ix' = IF ~endswith_md(lower(f))
              THEN [ix EXCEPT !.todo = @ \ {f}]
              ELSE OpenFile(ix, StageDir(ix.stage), f)
    /\ UNCHANGED <<dirs, index, prev, starts, edits>>
    /\ Unchanged_service

U_Embed ==
    /\ ix.prog = "upsert" /\ ix.pc = "embed"
    /\ LET idx == Len(ix.vectors)
       IN  ix' = Appended(ix, vector_record(StageDataType(ix.stage), ix.file,
                                            idx, ix.chunks[idx + 1]))
    /\ UNCHANGED <<dirs, index, prev, starts, edits>>
    /\ Unchanged_service

U_EmbedRaises ==
    /\ ix.prog = "upsert" /\ ix.pc = "embed"
    /\ ix' = Raised(ix, "EmbeddingServiceError")
    /\ UNCHANGED <<dirs, index, prev, starts, edits>>
    /\ Unchanged_service

\* after process_directory: upsert when there are vectors, then the next stage
U_Upsert ==
    /\ ix.prog = "upsert" /\ ix.pc = "loop" /\ ix.todo = {}
    /\ LET some == ix.all_vectors # <<>>
           x == IF some
                THEN [Called(ix) EXCEPT !.upserted = @ \cup
                        {<<StageIndex(ix.stage), id>> : id \in IdsOf(ix.all_vectors)}]
                ELSE ix
       IN  /\ index' = IF some
                       THEN [index EXCEPT ![StageIndex(ix.stage)] =
                                              upsert(@, ix.all_vectors)]
                       ELSE index
           /\ ix' = IF ix.stage = "booth"
                    THEN [x EXCEPT !.stage = "topics", !.pc = "dir",
                                   !.all_vectors = <<>>]
                    ELSE [x EXCEPT !.pc = "done"]
    /\ UNCHANGED <<dirs, prev, starts, edits>>
    /\ Unchanged_service

U_UpsertRaises ==
    /\ ix.prog = "upsert" /\ ix.pc = "loop" /\ ix.todo = {}
    /\ ix.all_vectors # <<>>
    /\ ix' = Raised(ix, "IndexUnavailableError")
    /\ UNCHANGED <<dirs, index, prev, starts, edits>>
    /\ Unchanged_service

(* ---- running the indexers as scripts; the documents between runs ---- *)

NoRun == [prog |-> NoValue, upserted |-> {}, card |-> [n \in IndexNames |-> 0]]

\* what a completed run upserted and the size it left each collection with
RunSummary ==
    [prog |-> ix.prog, upserted |-> ix.upserted,
     card |-> [n \in IndexNames |-> Cardinality(index[n])]]

PrevAfterRun == IF ix.pc = "done" THEN RunSummary ELSE prev

\* python upsert_topics.py
Script_UpsertTopics ==
    /\ proc = "off" /\ ix.pc = "idle" /\ starts < MaxStarts
    /\ ix' = upsert_topics_enter
    /\ starts' = starts + 1
    /\ UNCHANGED <<dirs, index, prev, edits>>
    /\ Unchanged_service

\* python upsert.py
Script_Upsert ==
    /\ proc = "off" /\ ix.pc = "idle" /\ starts < MaxStarts
    /\ ix' = upsert_enter
    /\ starts' = starts + 1
    /\ UNCHANGED <<dirs, index, prev, edits>>
    /\ Unchanged_service

\* the script's process ends, normally or with the traceback
Script_Exit ==
    /\ proc = "off" /\ ix.pc \in {"done", "failed"}
    /\ ix' = IxIdle
    /\ prev' = PrevAfterRun
    /\ UNCHANGED <<dirs, index, starts, edits>>
    /\ Unchanged_service

\* somebody changes the reference documents between two runs
EditDocuments ==
    /\ proc = "off" /\ ix.pc = "idle" /\ edits < MaxEdits
    /\ \E d \in DirNames : \E c \in DirChoices(d) \ {dirs[d]} :
        dirs' = [dirs EXCEPT ![d] = c]
    /\ prev' = NoRun
    /\ edits' = edits + 1
    /\ UNCHANGED <<index, ix, starts>>
    /\ Unchanged_service

-----------------------------------------------------------------------------
(* main.py: startup *)

Requests == 1..MaxRequests

NoInfo == [kind |-> NoValue, keys |-> {}]
NoResponse ==
    [kind |-> NoValue, error |-> NoValue, fields |-> <<>>, details |-> NoValue,
     summary |-> NoValue]

ReqIdle ==
    [pc |-> "idle", extracted_info |-> NoInfo, attempts |-> 0,
     agent_runs |-> 0, tool_calls |-> 0, agent_outcome |-> NoValue,
     response |-> NoResponse]

NoTool ==
    [tool |-> NoValue, req |-> 0, args |-> <<>>, collaborator |-> NoValue,
     raised |-> FALSE, searched |-> FALSE, query |-> <<>>, text |-> NoValue]
NoQuery == [qmodel |-> NoValue, rmodels |-> {}]

CtIdle == [text |-> <<>>, max_chars |-> 1, called |-> FALSE, chunks |-> <<>>]

Unchanged_indexer == UNCHANGED <<dirs, index, ix, prev, starts, edits, env, ct>>

\* agent = Agent(tools=[...], system_prompt=...): one object per process, made
\* when main.py is imported; its conversation starts empty, the system prompt
\* is held apart from it
NewAgent == {}

\* agent(prompt) for request r: the prompt, then every tool invocation with
\* its input and result, then the final answer join the conversation the agent
\* object holds; the conversation is kept as the requests that wrote to it
Written(r) == agent_messages \cup {r}

\* the routes exist while the reindex is still running
AcceptingRequests_early == proc \in {"initializing", "serving"}

\* app = FastAPI() and the routes come after initialize_application() returned
AcceptingRequests == proc = "serving"

\* module level of main.py reaches initialize_application(): upsert_topics()
InitializeApplication ==
    /\ proc = "boot"
    /\ proc' = "initializing"
    /\ ix' = upsert_topics_enter
    /\ UNCHANGED <<env, dirs, index, prev, starts, edits, req, loop,
                   last_tool, last_query, ct, agent_messages>>

\* upsert_topics() returned: the log line, then the app and its routes
InitializeDone ==
    /\ proc = "initializing" /\ ix.pc = "done"
    /\ proc' = "serving"
    /\ UNCHANGED <<env, dirs, index, ix, prev, starts, edits, req, loop,
                   last_tool, last_query, ct, agent_messages>>

\* upsert_topics() raised: the import of main.py fails, no app is created
InitializeRaises ==
    /\ proc = "initializing" /\ ix.pc = "failed"
    /\ proc' = "crashed"
    /\ UNCHANGED <<env, dirs, index, ix, prev, starts, edits, req, loop,
                   last_tool, last_query, ct, agent_messages>>

\* the process is started again; only the vector store keeps its content
Restart ==
    /\ proc \in {"serving", "crashed"} /\ starts < MaxStarts
    /\ proc' = "boot"
    /\ starts' = starts + 1
    /\ prev' = PrevAfterRun
    /\ ix' = IxIdle
    /\ req' = [r \in Requests |-> ReqIdle]
    /\ loop' = 0
    /\ last_tool' = NoTool
    /\ last_query' = NoQuery
    /\ agent_messages' = NewAgent
    /\ UNCHANGED <<env, dirs, index, edits, ct>>

-----------------------------------------------------------------------------
(* main.py: the three tools *)

NO_TOPICS == "no related topics were found"
NAME_COMPANY_UNSPECIFIED ==
    "there were no search results: name and company name are not specified"
QUERY_UNSPECIFIED == "there were no search results: no query is specified"

name_company_not_found(name, company_name) ==
    Str(name) \o " / " \o Str(company_name) \o ": no related information was found"
solutions_not_found(query) ==
    "no Fusic development case related to query '" \o Str(query) \o "' was found"
solutions_error(query) ==
    "an error occurred while searching for query '" \o Str(query) \o "'"

\* "\n".join(f"- {i['title']}: {i['link']}" for i in items)
RECURSIVE render_items(_)
render_items(items) ==
    IF items = <<>> THEN ""
    ELSE "- " \o Head(items).title \o ": " \o Head(items).link
         \o (IF Len(items) > 1 THEN "\n" \o render_items(Tail(items)) ELSE "")

\* "\n---\n".join(m.metadata["text"] for m in rsp.matches)
RECURSIVE join_matches(_)
join_matches(matches) ==
    IF matches = <<>> THEN ""
    ELSE Str(Head(matches).metadata.text)
         \o (IF Len(matches) > 1 THEN "\n---\n" \o join_matches(Tail(matches))
             ELSE "")

\* what a tool invocation did: whether it raised, whether and with which query
\* it reached its external collaborator and how that answered, and its text
ToolResult(raised, query, collaborator, text) ==
    [raised |-> raised, searched |-> collaborator # "none", query |-> query,
     collaborator |-> collaborator, text |-> text]

\* outcomes of svc.cse().list(...).execute(): an exception, or the items
Item1 == [title |-> "T1", link |-> "https://one"]
Item2 == [title |-> "T2", link |-> "https://two"]
SearchOutcomes ==
    {[ok |-> FALSE, items |-> <<>>], [ok |-> TRUE, items |-> <<>>],
     [ok |-> TRUE, items |-> <<Item1, Item2>>]}

\* arguments the language model may pass to a tool
TextArgs == {<<>>, <<"x">>}

\* the query string of search_name_and_company: f"{name} {company_name}".strip()
name_company_query(name, company_name) == strip(name \o <<" ">> \o company_name)

\* the guard skips the search when either argument is empty
search_name_and_company_either(name, company_name, search) ==
    LET q == name_company_query(name, company_name)
    IN  IF name = <<>> \/ company_name = <<>>
        THEN ToolResult(FALSE, <<>>, "none", NAME_COMPANY_UNSPECIFIED)
        ELSE IF ~search.ok
        THEN ToolResult(TRUE, q, "failed", NoValue)
        ELSE IF search.items = <<>>
        THEN ToolResult(FALSE, q, "empty", name_company_not_found(name, company_name))
        ELSE ToolResult(FALSE, q, "ok", render_items(search.items))

search_name_and_company(name, company_name, search) ==
    LET q == name_company_query(name, company_name)
    IN  IF name = <<>> /\ company_name = <<>>
        THEN ToolResult(FALSE, <<>>, "none", NAME_COMPANY_UNSPECIFIED)
        ELSE IF ~search.ok
        THEN ToolResult(TRUE, q, "failed", NoValue)
        ELSE IF search.items = <<>>
        THEN ToolResult(FALSE, q, "empty", name_company_not_found(name, company_name))
        ELSE ToolResult(FALSE, q, "ok", render_items(search.items))

get_fusic_solutions(query, search) ==
    IF query = <<>>
    THEN ToolResult(FALSE, <<>>, "none", QUERY_UNSPECIFIED)
    ELSE IF ~search.ok
    THEN ToolResult(FALSE, query, "failed", solutions_error(query))
    ELSE IF search.items = <<>>
    THEN ToolResult(FALSE, query, "empty", solutions_not_found(query))
    ELSE ToolResult(FALSE, query, "ok", render_items(search.items))

\* outcomes of embed_query and index.query: either may raise; otherwise the
\* store answers with min(TOP_K, size) distinct records in its own order
QueryOutcomes ==
    LET coll == index[TOPIC_INDEX]
        n == Min(TopK, Cardinality(coll))
    IN  {[embed_ok |-> FALSE, query_ok |-> FALSE, matches |-> <<>>],
         [embed_ok |-> TRUE, query_ok |-> FALSE, matches |-> <<>>]}
        \cup {[embed_ok |-> TRUE, query_ok |-> TRUE, matches |-> m] :
                m \in {q \in [1..n -> coll] :
                          \A i, j \in 1..n : i # j => q[i] # q[j]}}

search_topic_from_index(query, out) ==
    IF ~out.embed_ok
    THEN ToolResult(TRUE, query, "embed failed", NoValue)
    ELSE IF ~out.query_ok
    THEN ToolResult(TRUE, query, "query failed", NoValue)
    ELSE IF out.matches # <<>>
    THEN ToolResult(FALSE, query, "ok", join_matches(out.matches))
    ELSE ToolResult(FALSE, query, "empty", NO_TOPICS)

-----------------------------------------------------------------------------
(* main.py and info_extract.py: the /upload handler *)

required_fields == <<"name", "company_name", "position">>
RequiredFields == SeqToSet(required_fields)

\* what the extraction API call produces: an exception (also from json.loads),
\* or JSON content: an object with some keys, a scalar, or a string (keys: the
\* field names that occur in it)
ExtractionOutcomes ==
    {[kind |-> "raises", keys |-> {}], [kind |-> "scalar", keys |-> {}],
     [kind |-> "string", keys |-> RequiredFields]}
    \cup {[kind |-> "dict", keys |-> ks] : ks \in SUBSET RequiredFields}

\* extract_information: the parsed content, or the error value
extract_information(api) ==
    IF api.kind = "raises" THEN [kind |-> "dict", keys |-> {"error"}] ELSE api

\* all(field in extracted_info for field in required_fields), on a container
has_required_fields(extracted_info) ==
    \A i \in 1..Len(required_fields) : required_fields[i] \in extracted_info.keys

ErrorWithDetails ==
    [NoResponse EXCEPT !.kind = "error", !.error = "Failed to process image",
                       !.details = "traceback"]
ValidationError ==
    [NoResponse EXCEPT !.kind = "error",
                       !.error = "could not obtain the following items",
                       !.fields = required_fields]
Summary(final_text) ==
    [NoResponse EXCEPT !.kind = "summary", !.summary = final_text]
Unhandled == [NoResponse EXCEPT !.kind = "unhandled exception"]

Finished(r, outcome, response) ==
    [req EXCEPT ![r].pc = "done", ![r].agent_outcome = outcome,
                ![r].response = response]

\* the handler starts: content = await file.read(); the requests are numbered
\* in the order they arrive in
Upload_Receive(r) ==
    /\ AcceptingRequests /\ loop = 0
    /\ req[r].pc = "idle"
    /\ \A q \in 1..(r - 1) : req[q].pc # "idle"
    /\ req' = [req EXCEPT ![r].pc = "read"]
    /\ UNCHANGED <<loop, last_tool, last_query, proc, agent_messages>>
    /\ Unchanged_indexer

\* the agent is called before the extraction result is looked at
Upload_Extract_agent_first(r) ==
    /\ proc = "serving" /\ loop = 0
    /\ req[r].pc = "read"
    /\ \E api \in ExtractionOutcomes :
        req' = [req EXCEPT ![r].extracted_info = extract_information(api),
                           ![r].attempts = @ + 1,
                           ![r].pc = "agent", ![r].agent_runs = @ + 1]
    /\ loop' = r
    /\ agent_messages' = Written(r)
    /\ UNCHANGED <<last_tool, last_query, proc>>
    /\ Unchanged_indexer

\* extract_information, the required-field check and the prompt; then agent(prompt)
\* is entered.  A scalar makes the check raise TypeError and a string makes the
\* prompt's extracted_info['name'] raise it: the outer except answers.
Upload_Extract(r) ==
    /\ proc = "serving" /\ loop = 0
    /\ req[r].pc = "read"
    /\ \E api \in ExtractionOutcomes :
        LET info == extract_information(api)
            got == [req EXCEPT ![r].extracted_info = info, ![r].attempts = @ + 1]
        IN  IF info.kind = "scalar"
            THEN /\ req' = [got EXCEPT ![r].pc = "done", ![r].response = ErrorWithDetails]
                 /\ loop' = r
                 /\ agent_messages' = agent_messages
            ELSE IF ~has_required_fields(info)
            THEN /\ req' = [got EXCEPT ![r].pc = "done", ![r].response = ValidationError]
                 /\ loop' = r
                 /\ agent_messages' = agent_messages
            ELSE IF info.kind = "string"
            THEN /\ req' = [got EXCEPT ![r].pc = "done", ![r].response = ErrorWithDetails]
                 /\ loop' = r
                 /\ agent_messages' = agent_messages
            ELSE /\ req' = [got EXCEPT ![r].pc = "agent", ![r].agent_runs = @ + 1]
                 /\ loop' = r
                 /\ agent_messages' = Written(r)
    /\ UNCHANGED <<last_tool, last_query, proc>>
    /\ Unchanged_indexer

Invoked(r, tool, args, res) ==
    [tool |-> tool, req |-> r, args |-> args, collaborator |-> res.collaborator,
     raised |-> res.raised, searched |-> res.searched, query |-> res.query,
     text |-> res.text]

\* the language model has the agent invoke search_name_and_company
Agent_SearchNameAndCompany(r) ==
    /\ proc = "serving" /\ loop = r /\ req[r].pc = "agent"
    /\ req[r].tool_calls < MaxRounds
    /\ \E name \in TextArgs, company_name \in TextArgs, search \in SearchOutcomes :
        last_tool' = Invoked(r, "search_name_and_company", <<name, company_name>>,
                             search_name_and_company(name, company_name, search))
    /\ req' = [req EXCEPT ![r].tool_calls = @ + 1]
    /\ agent_messages' = Written(r)
    /\ UNCHANGED <<loop, last_query, proc>>
    /\ Unchanged_indexer

\* the language model has the agent invoke search_topic_from_index
Agent_SearchTopicFromIndex(r) ==
    /\ proc = "serving" /\ loop = r /\ req[r].pc = "agent"
    /\ req[r].tool_calls < MaxRounds
    /\ \E query \in TextArgs, out \in QueryOutcomes :
        /\ last_tool' = Invoked(r, "search_topic_from_index", <<query>>,
                                search_topic_from_index(query, out))
        /\ last_query' =
              IF out.embed_ok /\ out.query_ok
              THEN [qmodel |-> embed_query(query).model,
                    rmodels |-> {m.values.model : m \in index[TOPIC_INDEX]}]
              ELSE last_query
    /\ req' = [req EXCEPT ![r].tool_calls = @ + 1]
    /\ agent_messages' = Written(r)
    /\ UNCHANGED <<loop, proc>>
    /\ Unchanged_indexer

\* the language model has the agent invoke get_fusic_solutions
Agent_GetFusicSolutions(r) ==
    /\ proc = "serving" /\ loop = r /\ req[r].pc = "agent"
    /\ req[r].tool_calls < MaxRounds
    /\ \E query \in TextArgs, search \in SearchOutcomes :
        last_tool' = Invoked(r, "get_fusic_solutions", <<query>>,
                             get_fusic_solutions(query, search))
    /\ req' = [req EXCEPT ![r].tool_calls = @ + 1]
    /\ agent_messages' = Written(r)
    /\ UNCHANGED <<loop, last_query, proc>>
    /\ Unchanged_indexer

\* what agent(prompt) returns: an object with a message of content blocks, an
\* object without one, or one whose message the extraction code chokes on
AgentResults == {"message", "plain", "malformed"}

\* an exception leaves agent(prompt) and nothing catches it in the handler
Agent_Raises_uncaught(r) ==
    /\ proc = "serving" /\ loop = r /\ req[r].pc = "agent"
    /\ req' = Finished(r, "raised", Unhandled)
    /\ loop' = loop
    /\ UNCHANGED <<last_tool, last_query, proc, agent_messages>>
    /\ Unchanged_indexer

\* an exception leaves agent(prompt): the inner except answers
Agent_Raises(r) ==
    /\ proc = "serving" /\ loop = r /\ req[r].pc = "agent"
    /\ req' = Finished(r, "raised", ErrorWithDetails)
    /\ loop' = loop
    /\ UNCHANGED <<last_tool, last_query, proc, agent_messages>>
    /\ Unchanged_indexer

\* agent(prompt) returns; the final text is taken from the result
Agent_Returns(r) ==
    /\ proc = "serving" /\ loop = r /\ req[r].pc = "agent"
    /\ \E result \in AgentResults :
        req' = CASE result = "message" ->
                      Finished(r, "returned", Summary("text blocks of the message"))
                 [] result = "plain" ->
                      Finished(r, "returned", Summary("str(result)"))
                 [] OTHER ->
                      Finished(r, "extraction raised", ErrorWithDetails)
    /\ loop' = loop
    /\ agent_messages' = Written(r)
    /\ UNCHANGED <<last_tool, last_query, proc>>
    /\ Unchanged_indexer

\* the handler has returned: the response goes out, its locals are gone and
\* the event loop takes the next request; the agent object is a global of the
\* module and nothing clears what it holds
Upload_Respond(r) ==
    /\ proc = "serving" /\ loop = r /\ req[r].pc = "done"
    /\ req' = [req EXCEPT ![r] = [ReqIdle EXCEPT !.pc = "closed"]]
    /\ loop' = 0
    /\ last_tool' = NoTool
    /\ UNCHANGED <<last_query, proc, agent_messages>>
    /\ Unchanged_indexer

-----------------------------------------------------------------------------
(* The service *)

ServiceDirChoices == {AbsentDir, FilesDir({File("a.md", DocLong)}), DirThree}

Init ==
    /\ env \in EnvChoices
    /\ dirs \in [DirNames -> ServiceDirChoices \cup BoothDirChoices]
    /\ dirs[TOPICS_DIR] \in ServiceDirChoices
    /\ dirs[BOOTH_DIR] = AbsentDir
    /\ index = EmptyIndex
    /\ ix = IxIdle
    /\ prev = NoRun
    /\ proc = "boot"
    /\ starts = 1
    /\ edits = 0
    /\ req = [r \in Requests |-> ReqIdle]
    /\ loop = 0
    /\ last_tool = NoTool
    /\ last_query = NoQuery
    /\ ct = CtIdle
    /\ agent_messages = NewAgent

Next ==
    \/ InitializeApplication
    \/ InitializeDone
    \/ InitializeRaises
    \/ Restart
    \/ UT_NextFile
    \/ UT_Embed
    \/ UT_EmbedRaises
    \/ UT_Upsert
    \/ UT_UpsertRaises
    \/ \E r \in Requests : Upload_Receive(r)
    \/ \E r \in Requests : Upload_Extract(r)
    \/ \E r \in Requests : Agent_SearchNameAndCompany(r)
    \/ \E r \in Requests : Agent_SearchTopicFromIndex(r)
    \/ \E r \in Requests : Agent_GetFusicSolutions(r)
    \/ \E r \in Requests : Agent_Raises(r)
    \/ \E r \in Requests : Agent_Returns(r)
    \/ \E r \in Requests : Upload_Respond(r)

Spec == Init /\ [][Next]_vars

-----------------------------------------------------------------------------
(* chunk_text on its own *)

Alphabet == {"a", "b"}
Texts == UNION {[1..k -> Alphabet] : k \in 0..MaxTextLen}

InitChunk ==
    /\ ct \in [text : Texts, max_chars : 1..MaxMaxChars, called : {FALSE},
               chunks : {<<>>}]
    /\ env = NoValue
    /\ dirs = [d \in DirNames |-> AbsentDir]
    /\ index = EmptyIndex
    /\ ix = IxIdle
    /\ prev = NoRun
    /\ proc = "off"
    /\ starts = 0
    /\ edits = 0
    /\ req = [r \in Requests |-> ReqIdle]
    /\ loop = 0
    /\ last_tool = NoTool
    /\ last_query = NoQuery
    /\ agent_messages = NewAgent

ChunkCall ==
    /\ ~ct.called
    /\ ct' = [ct EXCEPT !.called = TRUE, !.chunks = chunk_text(ct.text, ct.max_chars)]
    /\ UNCHANGED <<env, dirs, index, ix, prev, proc, starts, edits, req, loop,
                   last_tool, last_query, agent_messages>>

NextChunk == ChunkCall

SpecChunk == InitChunk /\ [][NextChunk]_vars

-----------------------------------------------------------------------------
(* The indexers run as scripts *)

InitIndexer ==
    /\ env = NoValue
    /\ dirs \in [DirNames -> BoothDirChoices \cup TopicDirChoices]
    /\ \A d \in DirNames : dirs[d] \in DirChoices(d)
    /\ index = EmptyIndex
    /\ ix = IxIdle
    /\ prev = NoRun
    /\ proc = "off"
    /\ starts = 0
    /\ edits = 0
    /\ req = [r \in Requests |-> ReqIdle]
    /\ loop = 0
    /\ last_tool = NoTool
    /\ last_query = NoQuery
    /\ ct = CtIdle
    /\ agent_messages = NewAgent

NextIndexer ==
    \/ Script_UpsertTopics
    \/ Script_Upsert
    \/ Script_Exit
    \/ EditDocuments
    \/ UT_NextFile
    \/ UT_Embed
    \/ UT_EmbedRaises
    \/ UT_Upsert
    \/ UT_UpsertRaises
    \/ U_ProcessDirectory
    \/ U_NextFile
    \/ U_Embed
    \/ U_EmbedRaises
    \/ U_Upsert
    \/ U_UpsertRaises

SpecIndexer == InitIndexer /\ [][NextIndexer]_vars

-----------------------------------------------------------------------------
(* Properties *)

RequestActivity ==
    \/ \E r \in Requests : req[r].pc # "idle"
    \/ last_tool.tool # NoValue
    \/ last_query.qmodel # NoValue

ReindexCompleted == ix.prog = "upsert_topics" /\ ix.pc = "done"

\* C1: no /upload handler step and no search_topic_from_index query happens
\* before the startup reindex of the running process has run to completion.
C1_ReindexBeforeRequests == RequestActivity => ReindexCompleted

\* C1: a vector query is answered from a collection the reindex has filled
C1_Witness ==
    /\ last_tool.tool = "search_topic_from_index" /\ last_tool.collaborator = "ok"
    /\ ReindexCompleted /\ ix.upserted # {}

\* C2: a failed embedding or upsert call ends the startup reindex at once (no
\* embed or upsert call follows it in that run), and the process never
\* accepts a request afterwards.
C2_FailFast ==
    /\ ix.late_calls = 0
    /\ ix.failed =>
          /\ ix.pc = "failed"
          /\ proc \in {"initializing", "crashed"}
          /\ ~RequestActivity

\* C2: the second chunk's embedding failed after the first one's succeeded
C2_Witness ==
    /\ proc = "crashed" /\ ix.failed
    /\ ix.error = "EmbeddingServiceError" /\ Len(ix.vectors) >= 1

AllRecords ==
    SeqToSet(ix.vectors) \cup SeqToSet(ix.all_vectors)
    \cup UNION {index[n] : n \in IndexNames}

Suffix(r) ==
    r.metadata.source \o "-chunk" \o ToString(r.metadata.chunk_index)

\* a run over the documents of the completed run before it upserts the same
\* ids and leaves the collections it writes as large as they were
Idempotent ==
    (ix.pc = "done" /\ prev.prog = ix.prog) =>
        /\ ix.upserted = prev.upserted
        /\ \A n \in IndexNames :
              (n = TOPIC_INDEX \/ ix.prog = "upsert") =>
                  Cardinality(index[n]) = prev.card[n]

DistinctIds ==
    \A i, j \in 1..Len(ix.all_vectors) :
        i # j => ix.all_vectors[i].id # ix.all_vectors[j].id

DataCategories == {"booth", "topic", "topics", "tpics"}

\* C3 as stated: every record's id is {data_category}-{source}-chunk{index},
\* and a second run over unchanged documents upserts the same ids and does
\* not grow the collection.
C3_CategoryInEveryId ==
    /\ \A r \in AllRecords :
          \E c \in DataCategories : r.id = c \o "-" \o Suffix(r)
    /\ DistinctIds
    /\ Idempotent

\* C3 amended: the id is {data_type}-{source}-chunk{index} for the records of
\* upsert.py and {source}-chunk{index}, without a category, for the records of
\* the startup indexer upsert_topics.py; the index is the 1-based position of
\* the chunk in its document; a second run over unchanged documents upserts
\* the same ids and does not grow the collection.
C3_DeterministicIds ==
    /\ \A r \in AllRecords :
          IF "data_type" \in DOMAIN r.metadata
          THEN /\ r.metadata.data_type \in {"booth", "tpics"}
               /\ r.id = r.metadata.data_type \o "-" \o Suffix(r)
          ELSE r.id = Suffix(r)
    /\ \A r \in SeqToSet(ix.vectors) \cup SeqToSet(ix.all_vectors) :
          ("data_type" \in DOMAIN r.metadata) <=> (ix.prog = "upsert")
    /\ \A k \in 1..Len(ix.vectors) :
          /\ ix.vectors[k].metadata.chunk_index = k
          /\ ix.vectors[k].metadata.source = ix.file
          /\ ix.vectors[k].metadata.text = ix.chunks[k]
    /\ DistinctIds
    /\ Idempotent

\* C3: upsert.py has completed a second run over the documents of its first,
\* with records in both collections
C3_Witness ==
    /\ ix.pc = "done" /\ ix.prog = "upsert" /\ prev.prog = "upsert"
    /\ \A n \in IndexNames : \E id \in CollIds(index[n]) : <<n, id>> \in ix.upserted
    /\ Cardinality(ix.upserted) >= 3

\* C4: the chunks of chunk_text(T, M), M > 0, concatenate to T, each has
\* between 1 and M characters, and there are ceil(len(T)/M) of them (none for
\* the empty text).
C4_ChunkText ==
    ct.called =>
        /\ Concat(ct.chunks) = ct.text
        /\ \A k \in 1..Len(ct.chunks) :
              Len(ct.chunks[k]) >= 1 /\ Len(ct.chunks[k]) <= ct.max_chars
        /\ Len(ct.chunks) = (Len(ct.text) + ct.max_chars - 1) \div ct.max_chars
        /\ (ct.text = <<>> => ct.chunks = <<>>)

\* C4: a text of two chunks, the last one shorter
C4_Witness ==
    /\ ct.called /\ Len(ct.text) = 4 /\ ct.max_chars = 3
    /\ Len(ct.chunks) = 2 /\ Len(ct.chunks[2]) = 1

Lacks(info) ==
    info.kind # NoValue /\ \E f \in RequiredFields : f \notin info.keys

\* C5: a request whose extraction result lacks a required field (the error
\* value included) never runs the agent nor any tool; it ends with an error
\* result after the one extraction attempt.
C5_NoAgentWithoutFields ==
    \A r \in Requests :
        Lacks(req[r].extracted_info) =>
            /\ req[r].agent_runs = 0
            /\ req[r].tool_calls = 0
            /\ last_tool.req # r
            /\ req[r].attempts = 1
            /\ req[r].pc = "done"
            /\ req[r].response.kind = "error"

\* C5: a request was answered whose extraction result lacks only position
C5_Witness ==
    \E r \in Requests :
        /\ req[r].pc = "done"
        /\ req[r].extracted_info = [kind |-> "dict", keys |-> {"name", "company_name"}]
        /\ req[r].response.kind = "error"

\* C6: a validation error names exactly the fields the extraction result
\* lacks.
C6_NamesExactlyMissing ==
    \A r \in Requests :
        (req[r].pc = "done" /\ req[r].response.fields # <<>>) =>
            SeqToSet(req[r].response.fields)
                = RequiredFields \ req[r].extracted_info.keys

\* C7: no tool raises: each returns a text, search_topic_from_index the fixed
\* "no results" message when the embedding or the query fails or nothing
\* matches, the web search tools a fallback when the search fails.
C7_ToolsNeverRaise ==
    last_tool.tool # NoValue =>
        /\ ~last_tool.raised
        /\ last_tool.text # NoValue
        /\ (/\ last_tool.tool = "search_topic_from_index"
            /\ last_tool.collaborator \in {"embed failed", "query failed", "empty"})
              => last_tool.text = NO_TOPICS

IsNameCompany == last_tool.tool = "search_name_and_company"

NoResultsFallback ==
    (IsNameCompany /\ last_tool.collaborator = "empty") =>
        /\ ~last_tool.raised
        /\ last_tool.text = name_company_not_found(last_tool.args[1], last_tool.args[2])

\* C8 as stated: search_name_and_company answers with a fallback, without
\* searching, whenever name or company_name is empty; and with a fallback
\* when the search finds nothing.
C8_EitherEmptySkipsSearch ==
    /\ (IsNameCompany /\ (last_tool.args[1] = <<>> \/ last_tool.args[2] = <<>>)) =>
          /\ ~last_tool.searched
          /\ last_tool.text = NAME_COMPANY_UNSPECIFIED
    /\ NoResultsFallback

\* C8 amended: search_name_and_company answers with a fallback, without
\* searching, exactly when name and company_name are both empty; when only
\* one is empty the search runs with the other one as its query; it answers
\* with a fallback when the search finds nothing.
C8_BothEmptySkipsSearch ==
    /\ (IsNameCompany /\ last_tool.args[1] = <<>> /\ last_tool.args[2] = <<>>) =>
          /\ ~last_tool.searched /\ ~last_tool.raised
          /\ last_tool.text = NAME_COMPANY_UNSPECIFIED
    /\ (IsNameCompany /\ (last_tool.args[1] # <<>> \/ last_tool.args[2] # <<>>)) =>
          /\ last_tool.searched
          /\ last_tool.args[1] = <<>> => last_tool.query = last_tool.args[2]
          /\ last_tool.args[2] = <<>> => last_tool.query = last_tool.args[1]
    /\ NoResultsFallback

\* C8: the tool was given a company name only, searched and found nothing
C8_Witness ==
    /\ IsNameCompany
    /\ last_tool.args = << <<>>, <<"x">> >>
    /\ last_tool.searched /\ last_tool.collaborator = "empty"

\* C9: a validated request answers an error raised by the agent run, or by
\* taking the final text from its result, with an error result that carries a
\* message and a trace, and answers with the report text otherwise; no
\* exception reaches the caller.
C9_AgentErrorsCaught ==
    \A r \in Requests :
        (req[r].agent_runs > 0 /\ req[r].pc = "done") =>
            /\ req[r].agent_outcome \in {"raised", "extraction raised", "returned"}
            /\ req[r].agent_outcome \in {"raised", "extraction raised"} =>
                  /\ req[r].response.kind = "error"
                  /\ req[r].response.error # NoValue
                  /\ req[r].response.details # NoValue
            /\ req[r].agent_outcome = "returned" =>
                  /\ req[r].response.kind = "summary"
                  /\ req[r].response.summary # NoValue

\* C9: the agent run raised after a tool of it had raised
C9_Witness ==
    \E r \in Requests :
        /\ req[r].pc = "done" /\ req[r].agent_outcome = "raised"
        /\ last_tool.req = r /\ last_tool.raised
        /\ req[r].response.kind = "error"

\* C10: every vector query compares a query vector with record vectors of the
\* same embedding model only.
C10_SameEmbeddingModel ==
    last_query.qmodel # NoValue =>
        \A m \in last_query.rmodels : m = last_query.qmodel

\* the step is the index.upsert call of a run's stage into collection n
UpsertInto(n) ==
    /\ ix.pc = "loop" /\ ix.todo = {} /\ ix'.pc \in {"done", "dir"}
    /\ ix.all_vectors # <<>> \/ ix.prog = "upsert_topics"
    /\ n = StageIndex(ix.stage)

\* the ids a step writes into collection n: those of the batch it upserts
ProducedIds(n) == IF UpsertInto(n) THEN IdsOf(ix.all_vectors) ELSE {}

\* C13: a reindex run changes only the records whose ids it produces: after
\* the upsert every produced id holds the one record this run built for it,
\* and every record whose id the run did not produce is as it was, no record
\* being added to or removed from the rest of the collection.
C13_FrameEffect ==
    [][\A n \in IndexNames :
          LET produced == ProducedIds(n)
          IN  /\ \A id \in produced :
                    \E r \in index'[n] :
                        /\ r.id = id
                        /\ r \in SeqToSet(ix.all_vectors)
                        /\ \A q \in index'[n] : q.id = id => q = r
              /\ {r \in index[n] : r.id \notin produced} =
                     {r \in index'[n] : r.id \notin produced}]_vars

\* C13: a.md has shrunk between two runs of one program: the later run has
\* rewritten its first chunk, and a higher chunk of the earlier run is still
\* in the collection with text the document no longer has
C13_Witness ==
    /\ ix.pc = "done" /\ dirs[TOPICS_DIR].exists
    /\ "a.md" \in listdir(TOPICS_DIR)
    /\ \E new, old \in index[TOPIC_INDEX] :
        /\ <<TOPIC_INDEX, new.id>> \in ix.upserted
        /\ <<TOPIC_INDEX, old.id>> \notin ix.upserted
        /\ new.metadata.source = "a.md" /\ old.metadata.source = "a.md"
        /\ ("data_type" \in DOMAIN new.metadata) = ("data_type" \in DOMAIN old.metadata)
        /\ old.metadata.chunk_index > new.metadata.chunk_index
        /\ old.metadata.text \notin
              SeqToSet(chunk_text(markdown_to_plain(read(TOPICS_DIR, "a.md")),
                                  ChunkChars))

\* C12: an absent reference-document directory is skipped and is no error: no
\* reindex run ends with the error of listing a directory that is not there,
\* and a start-up only fails after an embedding or upsert call has failed.
C12_AbsentDirectorySkipped ==
    /\ ix.error # "FileNotFoundError"
    /\ proc = "crashed" => ix.failed

\* C11: requests do not share the agent's conversation: while the agent runs
\* for a request, from its start on, the conversation it reads holds nothing
\* written for another request (user message, tool record or final answer).
C11_NoSharedConversation ==
    \A r \in Requests : req[r].pc = "agent" => agent_messages = {r}

====
